---- MODULE Spec2Model ----
(***************************************************************************)
(* A state-machine model of the sentiment-forecast core:                   *)
(*   - simple_backtest   (src/src/backtest/engine.py)                      *)
(*   - build_dataset     (src/src/model/train.py)                          *)
(*   - load_model        (src/src/model/train.py)                          *)
(*   - predict           (src/app.py), the attribution fallback chain      *)
(* Each component has its own specification (SpecBacktest, SpecDataset,    *)
(* SpecLoad, SpecPredict); the variables of the other components stay at   *)
(* their idle values.                                                      *)
(***************************************************************************)
EXTENDS Integers, Sequences, FiniteSets, TLC

VARIABLES
  \* ---- simple_backtest ----
  nX,        \* len(X) == len(y): rows are the positions 0 .. nX-1
  splits,    \* the splits argument
  bpc,       \* position in simple_backtest
  tscv,      \* the TimeSeriesSplit object: [n_splits |-> k], or NoSplitter
  folds,     \* the (tr, te) pairs the split generator has yielded so far
  model,     \* the single Ridge estimator: [fitted, rows]
  preds,     \* cumulative predictions
  rets,      \* cumulative true labels
  btResult,  \* the returned record (or NoResult)
  \* ---- build_dataset ----
  df,        \* the input frame: a sequence of [t, close] bars
  dsX,       \* returned X: a sequence of feature rows
  dsY,       \* returned y: a Series
  dpc,       \* position in build_dataset
  \* ---- load_model ----
  file,      \* the file at path: [exists, bytes]
  initFile,  \* the file as it was before the first call
  useLock,   \* do the callers serialize load_model with an external mutex
  lock,      \* holder of the external mutex (0: free)
  lpc,       \* lpc[c]: position of caller c in load_model
  local,     \* local[c]: the model held by caller c in its current call
  returned,  \* returned[c]: what the calls of caller c have returned so far
  trained,   \* models trained so far, in order of training
  writes,    \* models written to path so far, in order of the write
  rawReads,  \* number of loads that read a file not completely written
  \* ---- predict ----
  env,       \* the inputs of one predict call
  ppc,       \* position in predict
  shap_ok,
  shap_vals,
  caught,    \* the exception bound to e in the outer except clause
  response   \* the returned ForecastOut (or NoResult)

btVars == <<nX, splits, bpc, tscv, folds, model, preds, rets, btResult>>
dsVars == <<df, dsX, dsY, dpc>>
lmVars == <<file, initFile, useLock, lock, lpc, local, returned, trained, writes, rawReads>>
prVars == <<env, ppc, shap_ok, shap_vals, caught, response>>
vars == <<btVars, dsVars, lmVars, prVars>>

NoResult == [none |-> TRUE]

NoFile == [exists |-> FALSE, bytes |-> <<>>]

\* the empty dict {}
EmptyDict == [c \in {} |-> 0]

\* Python's range(a, b) as an array of positions.
Range(a, b) ==
  [i \in 1..(IF b > a THEN b - a ELSE 0) |-> a + i - 1]

SeqToSet(s) ==
  {s[i] : i \in DOMAIN s}

(***************************************************************************)
(* simple_backtest                                                         *)
(***************************************************************************)
MaxRows == 29
MaxSplits == 5

NoSplitter == [n_splits |-> -1]
Unfitted == [fitted |-> FALSE, rows |-> <<>>]

\* _BaseKFold.__init__ (behind TimeSeriesSplit(n_splits=splits)) rejects
\* n_splits <= 1 with a ValueError.
SplitterRejects(s) ==
  s <= 1

\* TimeSeriesSplit.split: n_folds = n_splits + 1, test_size = n // n_folds
TestSize(n, s) ==
  n \div (s + 1)

\* test_starts = range(n - n_splits * test_size, n, test_size); k = 1 .. n_splits
TestStart(n, s, k) ==
  n - s * TestSize(n, s) + (k - 1) * TestSize(n, s)

\* split() itself raises a ValueError when n_folds > n_samples or when
\* n_samples - test_size * n_splits <= 0.
SplitInfeasible(n, s) ==
  \/ s + 1 > n
  \/ n - TestSize(n, s) * s <= 0

\* Mutant of TrainIdx: the training block runs one row into the test block.
TrainIdxLeaky(n, s, k) ==
  Range(0, TestStart(n, s, k) + 1)

\* indices[:test_start]
TrainIdx(n, s, k) ==
  Range(0, TestStart(n, s, k))

\* indices[test_start : test_start + test_size]
TestIdx(n, s, k) ==
  Range(TestStart(n, s, k), TestStart(n, s, k) + TestSize(n, s))

\* Mutant of RidgeFit: a warm start that keeps what earlier fits have seen.
RidgeFitWarm(old, tr) ==
  [fitted |-> TRUE, rows |-> old.rows \o tr]

\* Ridge.fit(Xtr, ytr): the estimator is refitted from scratch; its fitted state
\* is a function of the rows handed to this call, here the rows themselves.
RidgeFit(old, tr) ==
  [fitted |-> TRUE, rows |-> tr]

\* Ridge.predict(Xte): one prediction per test row, a function of the fitted
\* state and of the row.
RidgePredict(m, te) ==
  [i \in DOMAIN te |-> [row |-> te[i], fit |-> m.rows]]

\* y.iloc[te].tolist(): the labels of the test rows, named by their row.
Labels(te) ==
  [i \in DOMAIN te |-> [row |-> te[i]]]

ErrorRecord(n) ==
  [samples |-> n, error |-> "Not enough samples for backtest"]

\* Mutant of MetricsRecord: samples counts the rows of X, as the error record does.
MetricsRecordAllRows(r) ==
  [samples |-> nX, mse |-> "float", cagr |-> "float",
   sharpe |-> "float", max_drawdown |-> "float"]

\* The floats (mse, cagr, sharpe, max_drawdown) are kept abstract.
MetricsRecord(r) ==
  [samples |-> Len(r), mse |-> "float", cagr |-> "float",
   sharpe |-> "float", max_drawdown |-> "float"]

\* lines 9-10: the precondition check
BtGuardFail ==
  /\ bpc = "guard"
  /\ nX < splits + 1
  /\ btResult' = ErrorRecord(nX)
  /\ bpc' = "done"
  /\ UNCHANGED <<dsVars, lmVars, prVars>>
  /\ UNCHANGED <<nX, splits, tscv, folds, model, preds, rets>>

BtGuardPass ==
  /\ bpc = "guard"
  /\ ~(nX < splits + 1)
  /\ bpc' = "construct"
  /\ UNCHANGED <<dsVars, lmVars, prVars>>
  /\ UNCHANGED <<nX, splits, tscv, folds, model, preds, rets, btResult>>

\* line 11, the constructor raising: the ValueError leaves simple_backtest
BtConstructRaise ==
  /\ bpc = "construct"
  /\ SplitterRejects(splits)
  /\ bpc' = "raised"
  /\ UNCHANGED <<dsVars, lmVars, prVars>>
  /\ UNCHANGED <<nX, splits, tscv, folds, model, preds, rets, btResult>>

\* lines 11-13
BtConstruct ==
  /\ bpc = "construct"
  /\ ~SplitterRejects(splits)
  /\ tscv' = [n_splits |-> splits]
  /\ preds' = <<>>
  /\ rets' = <<>>
  /\ model' = Unfitted
  /\ bpc' = "loop"
  /\ UNCHANGED <<dsVars, lmVars, prVars>>
  /\ UNCHANGED <<nX, splits, folds, btResult>>

\* lines 15-20: one iteration of the loop
BtFold ==
  /\ bpc = "loop"
  /\ ~SplitInfeasible(nX, tscv.n_splits)
  /\ Len(folds) < tscv.n_splits
  /\ LET k == Len(folds) + 1
         tr == TrainIdx(nX, tscv.n_splits, k)
         te == TestIdx(nX, tscv.n_splits, k)
         fit == RidgeFit(model, tr)
     IN  /\ folds' = Append(folds, [tr |-> tr, te |-> te])
         /\ model' = fit
         /\ preds' = preds \o RidgePredict(fit, te)
         /\ rets' = rets \o Labels(te)
  /\ UNCHANGED <<dsVars, lmVars, prVars>>
  /\ UNCHANGED <<nX, splits, bpc, tscv, btResult>>

\* lines 22-26: the generator is exhausted
BtFinish ==
  /\ bpc = "loop"
  /\ ~SplitInfeasible(nX, tscv.n_splits)
  /\ Len(folds) = tscv.n_splits
  /\ btResult' = MetricsRecord(rets)
  /\ bpc' = "done"
  /\ UNCHANGED <<dsVars, lmVars, prVars>>
  /\ UNCHANGED <<nX, splits, tscv, folds, model, preds, rets>>

BtNext ==
  \/ BtGuardFail
  \/ BtGuardPass
  \/ BtConstructRaise
  \/ BtConstruct
  \/ BtFold
  \/ BtFinish

InitBacktest ==
  /\ nX \in 0..MaxRows
  /\ splits \in 0..MaxSplits
  /\ bpc = "guard"
  /\ tscv = NoSplitter
  /\ folds = <<>>
  /\ model = Unfitted
  /\ preds = <<>>
  /\ rets = <<>>
  /\ btResult = NoResult
  /\ df = <<>> /\ dsX = <<>> /\ dsY = <<>> /\ dpc = "idle"
  /\ file = NoFile /\ initFile = NoFile /\ useLock = FALSE /\ lock = 0
  /\ lpc = <<>> /\ local = <<>> /\ returned = <<>>
  /\ trained = <<>> /\ writes = <<>> /\ rawReads = 0
  /\ env = NoResult /\ ppc = "idle" /\ shap_ok = FALSE /\ shap_vals = EmptyDict
  /\ caught = "" /\ response = NoResult

SpecBacktest ==
  InitBacktest /\ [][BtNext]_vars
(***************************************************************************)
(* build_dataset                                                           *)
(* A Series is a sequence of [t, v] entries (label, value).  A value is    *)
(* an exact fraction <<num, den>> in lowest terms, NaN (0/0) or Inf (1/0).  *)
(***************************************************************************)
MaxBars == 4
MaxClose == 2

RECURSIVE GCD(_, _)
GCD(a, b) ==
  IF b = 0 THEN a ELSE GCD(b, a % b)

Abs(a) ==
  IF a < 0 THEN -a ELSE a

Frac(a, b) ==
  LET g == GCD(Abs(a), b) IN <<a \div g, b \div g>>

Zero == Frac(0, 1)

NaN == <<0, 0>>

Inf == <<1, 0>>

\* df["Close"]
CloseOf(d) ==
  [i \in DOMAIN d |-> [t |-> d[i].t, v |-> d[i].close]]

\* Series.pct_change(): v[i] / v[i-1] - 1, NaN in the first place and for 0/0,
\* inf for a division of a positive close by 0.
PctChange(s) ==
  [i \in DOMAIN s |->
     [t |-> s[i].t,
      v |-> IF i = 1 THEN NaN
            ELSE IF s[i - 1].v = 0
                 THEN (IF s[i].v = 0 THEN NaN ELSE Inf)
                 ELSE Frac(s[i].v - s[i - 1].v, s[i - 1].v)]]

\* Series.fillna(d)
FillNa(s, d) ==
  [i \in DOMAIN s |-> [t |-> s[i].t, v |-> IF s[i].v = NaN THEN d ELSE s[i].v]]

\* Mutant of ShiftBack: shift(1), the label is the previous return.
ShiftFwd(s) ==
  [i \in DOMAIN s |-> [t |-> s[i].t, v |-> IF i = 1 THEN NaN ELSE s[i - 1].v]]

\* Series.shift(-1): labels stay, values move one place up, NaN in the last place
ShiftBack(s) ==
  [i \in DOMAIN s |-> [t |-> s[i].t, v |-> IF i = Len(s) THEN NaN ELSE s[i + 1].v]]

IsNotNa(e) ==
  e.v # NaN

\* Series.dropna()
DropNa(s) ==
  SelectSeq(s, IsNotNa)

\* X.loc[idx]: for each label of idx, in order, the row of X with that label
\* (labels are unique: the timestamps are strictly increasing).
Loc(X, idx) ==
  [i \in DOMAIN idx |-> X[CHOOSE j \in DOMAIN X : X[j].t = idx[i].t]]

\* lines 17-22: the feature frame on df.index; vol, rsi and sentiment are
\* finite floats after their fillna and are kept abstract.
Features(d) ==
  LET ret1 == FillNa(PctChange(CloseOf(d)), Zero)
  IN  [i \in DOMAIN d |->
         [t |-> d[i].t, ret1 |-> ret1[i].v,
          vol |-> "float", rsi |-> "float", sentiment |-> "float"]]

\* X["ret1"]
Ret1Of(X) ==
  [i \in DOMAIN X |-> [t |-> X[i].t, v |-> X[i].ret1]]

\* lines 17-22
DsFeatures ==
  /\ dpc = "features"
  /\ dsX' = Features(df)
  /\ dpc' = "label"
  /\ UNCHANGED <<btVars, lmVars, prVars>>
  /\ UNCHANGED <<df, dsY>>

\* line 24
DsLabel ==
  /\ dpc = "label"
  /\ dsY' = DropNa(ShiftBack(Ret1Of(dsX)))
  /\ dpc' = "align"
  /\ UNCHANGED <<btVars, lmVars, prVars>>
  /\ UNCHANGED <<df, dsX>>

\* lines 25-26
DsAlign ==
  /\ dpc = "align"
  /\ dsX' = Loc(dsX, dsY)
  /\ dpc' = "done"
  /\ UNCHANGED <<btVars, lmVars, prVars>>
  /\ UNCHANGED <<df, dsY>>

DsNext ==
  \/ DsFeatures
  \/ DsLabel
  \/ DsAlign

\* The timestamps of T in increasing order.
RECURSIVE Ascending(_)
Ascending(T) ==
  IF T = {} THEN <<>>
  ELSE LET lo == CHOOSE x \in T : \A y \in T : x <= y
       IN  <<lo>> \o Ascending(T \ {lo})

\* The price frames: strictly increasing timestamps out of 1..MaxBars, closes
\* finite and non-negative.
Frames ==
  UNION {{[i \in 1..Cardinality(T) |-> [t |-> Ascending(T)[i], close |-> cl[i]]] :
            cl \in [1..Cardinality(T) -> 0..MaxClose]} :
         T \in SUBSET (1..MaxBars)}

InitDataset ==
  /\ df \in Frames
  /\ dsX = <<>> /\ dsY = <<>> /\ dpc = "features"
  /\ nX = 0 /\ splits = 0 /\ bpc = "idle" /\ tscv = NoSplitter /\ folds = <<>>
  /\ model = Unfitted /\ preds = <<>> /\ rets = <<>> /\ btResult = NoResult
  /\ file = NoFile /\ initFile = NoFile /\ useLock = FALSE /\ lock = 0
  /\ lpc = <<>> /\ local = <<>> /\ returned = <<>>
  /\ trained = <<>> /\ writes = <<>> /\ rawReads = 0
  /\ env = NoResult /\ ppc = "idle" /\ shap_ok = FALSE /\ shap_vals = EmptyDict
  /\ caught = "" /\ response = NoResult

SpecDataset ==
  InitDataset /\ [][DsNext]_vars

(***************************************************************************)
(* predict: the attribution fallback chain                                 *)
(* env holds what the call meets: ENABLE_SHAP, whether X is empty, which   *)
(* steps raise (and with which message), which accessors the loaded model  *)
(* exposes, and the vectors the three strategies would produce.            *)
(***************************************************************************)
Cols == <<"ret1", "vol", "rsi", "sentiment">>

Msgs == {"", "No module named 'shap'"}

Vectors == {<<-1, 0, 2, 1>>, <<3, -2, 0, 0>>}

AbsVec(v) ==
  [i \in DOMAIN v |-> Abs(v[i])]

\* dict(zip(X.columns, values))
Zip(cols, vals) ==
  [c \in SeqToSet(cols) |-> vals[CHOOSE i \in DOMAIN cols : cols[i] = c]]

\* Mutant of NoFallbackDiag: both failures report the same text.
NoFallbackDiagSame(e) ==
  "Importance computation failed: " \o e

\* line 61
NoFallbackDiag(e) ==
  "SHAP failed and no fallback importances: " \o e

\* line 63
FailedDiag(e2) ==
  "Importance computation failed: " \o e2

ForecastOut(pred, asof, ok, fi) ==
  [ticker |-> "T", predicted_return |-> pred, as_of |-> asof,
   shap_ok |-> ok, feature_importance |-> fi]

\* lines 37-38
PrNoData ==
  /\ ppc = "start"
  /\ env.empty
  /\ response' = ForecastOut("0.0", "no data", FALSE, [error |-> "no data"])
  /\ ppc' = "done"
  /\ UNCHANGED <<btVars, dsVars, lmVars>>
  /\ UNCHANGED <<env, shap_ok, shap_vals, caught>>

\* line 40, model.predict raising: the exception leaves predict
PrPredictRaise ==
  /\ ppc = "start"
  /\ ~env.empty
  /\ env.predictRaises
  /\ ppc' = "raised"
  /\ UNCHANGED <<btVars, dsVars, lmVars>>
  /\ UNCHANGED <<env, shap_ok, shap_vals, caught, response>>

\* lines 40-42
PrPredict ==
  /\ ppc = "start"
  /\ ~env.empty
  /\ ~env.predictRaises
  /\ shap_ok' = FALSE
  /\ shap_vals' = EmptyDict
  /\ ppc' = "attr"
  /\ UNCHANGED <<btVars, dsVars, lmVars>>
  /\ UNCHANGED <<env, caught, response>>

\* line 43, ENABLE_SHAP is not "true"
PrShapOff ==
  /\ ppc = "attr"
  /\ ~env.enable
  /\ ppc' = "return"
  /\ UNCHANGED <<btVars, dsVars, lmVars>>
  /\ UNCHANGED <<env, shap_ok, shap_vals, caught, response>>

\* lines 44-50
PrShapOk ==
  /\ ppc = "attr"
  /\ env.enable
  /\ ~env.shapRaises
  /\ shap_vals' = Zip(Cols, AbsVec(env.sv))
  /\ shap_ok' = TRUE
  /\ ppc' = "return"
  /\ UNCHANGED <<btVars, dsVars, lmVars>>
  /\ UNCHANGED <<env, caught, response>>

\* lines 44-51: something in the SHAP block raises
PrShapFail ==
  /\ ppc = "attr"
  /\ env.enable
  /\ env.shapRaises
  /\ caught' = env.shapMsg
  /\ ppc' = "fallback"
  /\ UNCHANGED <<btVars, dsVars, lmVars>>
  /\ UNCHANGED <<env, shap_ok, shap_vals, response>>

\* lines 54-56
PrCoef ==
  /\ ppc = "fallback"
  /\ env.hasCoef
  /\ ~env.coefRaises
  /\ shap_vals' = Zip(Cols, AbsVec(env.coef))
  /\ shap_ok' = TRUE
  /\ ppc' = "return"
  /\ UNCHANGED <<btVars, dsVars, lmVars>>
  /\ UNCHANGED <<env, caught, response>>

\* lines 54-56 raising, caught at lines 62-63
PrCoefRaise ==
  /\ ppc = "fallback"
  /\ env.hasCoef
  /\ env.coefRaises
  /\ shap_vals' = [error |-> FailedDiag(env.fbMsg)]
  /\ ppc' = "return"
  /\ UNCHANGED <<btVars, dsVars, lmVars>>
  /\ UNCHANGED <<env, shap_ok, caught, response>>

\* lines 57-59
PrImportances ==
  /\ ppc = "fallback"
  /\ ~env.hasCoef
  /\ env.hasFI
  /\ ~env.fiRaises
  /\ shap_vals' = Zip(Cols, AbsVec(env.fi))
  /\ shap_ok' = TRUE
  /\ ppc' = "return"
  /\ UNCHANGED <<btVars, dsVars, lmVars>>
  /\ UNCHANGED <<env, caught, response>>

\* lines 57-59 raising, caught at lines 62-63
PrImportancesRaise ==
  /\ ppc = "fallback"
  /\ ~env.hasCoef
  /\ env.hasFI
  /\ env.fiRaises
  /\ shap_vals' = [error |-> FailedDiag(env.fbMsg)]
  /\ ppc' = "return"
  /\ UNCHANGED <<btVars, dsVars, lmVars>>
  /\ UNCHANGED <<env, shap_ok, caught, response>>

\* lines 60-61
PrNoFallback ==
  /\ ppc = "fallback"
  /\ ~env.hasCoef
  /\ ~env.hasFI
  /\ shap_vals' = [error |-> NoFallbackDiag(caught)]
  /\ ppc' = "return"
  /\ UNCHANGED <<btVars, dsVars, lmVars>>
  /\ UNCHANGED <<env, shap_ok, caught, response>>

\* line 65
PrReturn ==
  /\ ppc = "return"
  /\ response' = ForecastOut("float", "utcnow", shap_ok, shap_vals)
  /\ ppc' = "done"
  /\ UNCHANGED <<btVars, dsVars, lmVars>>
  /\ UNCHANGED <<env, shap_ok, shap_vals, caught>>

PrNext ==
  \/ PrNoData
  \/ PrPredictRaise
  \/ PrPredict
  \/ PrShapOff
  \/ PrShapOk
  \/ PrShapFail
  \/ PrCoef
  \/ PrCoefRaise
  \/ PrImportances
  \/ PrImportancesRaise
  \/ PrNoFallback
  \/ PrReturn

\* A step can raise only where it runs; a message belongs to a raise.
Envs ==
  {e \in [enable : BOOLEAN, empty : BOOLEAN, predictRaises : BOOLEAN,
          shapRaises : BOOLEAN, shapMsg : Msgs,
          hasCoef : BOOLEAN, coefRaises : BOOLEAN,
          hasFI : BOOLEAN, fiRaises : BOOLEAN, fbMsg : Msgs,
          sv : Vectors, coef : Vectors, fi : Vectors] :
     /\ e.coefRaises => e.hasCoef
     /\ e.fiRaises => e.hasFI
     /\ ~e.shapRaises => e.shapMsg = ""
     /\ ~(e.coefRaises \/ e.fiRaises) => e.fbMsg = ""}

InitPredict ==
  /\ env \in Envs
  /\ ppc = "start" /\ shap_ok = FALSE /\ shap_vals = EmptyDict
  /\ caught = "" /\ response = NoResult
  /\ nX = 0 /\ splits = 0 /\ bpc = "idle" /\ tscv = NoSplitter /\ folds = <<>>
  /\ model = Unfitted /\ preds = <<>> /\ rets = <<>> /\ btResult = NoResult
  /\ df = <<>> /\ dsX = <<>> /\ dsY = <<>> /\ dpc = "idle"
  /\ file = NoFile /\ initFile = NoFile /\ useLock = FALSE /\ lock = 0
  /\ lpc = <<>> /\ local = <<>> /\ returned = <<>>
  /\ trained = <<>> /\ writes = <<>> /\ rawReads = 0

SpecPredict ==
  InitPredict /\ [][PrNext]_vars

(***************************************************************************)
(* load_model                                                              *)
(* Callers run load_model(path) on one path, each up to MaxCalls times.    *)
(* With useLock the callers wrap each call in an external mutex; without   *)
(* it the steps of their calls interleave freely.                          *)
(***************************************************************************)
MaxCalls == 2
NumDraws == 2

Callers == {1, 2}

\* The outcomes of fitting Ridge(alpha=1.0) on the randomly sampled bootstrap
\* set: one fitted model per draw.
Models ==
  [alpha : {"1.0"}, coef : 1..NumDraws]

NoModel == [alpha |-> "none", coef |-> 0]

\* Mutant of Dumps: the blob lacks its end (the STOP opcode never reaches the file).
DumpsTruncated(m) ==
  <<"PROTO", m.alpha, m.coef>>

\* pickle.dump(model, f): the serialized blob
Dumps(m) ==
  <<"PROTO", m.alpha, m.coef, "STOP">>

\* pickle.load succeeds on a complete blob only (else EOFError/UnpicklingError)
WellFormed(b) ==
  /\ Len(b) = 4
  /\ b[1] = "PROTO"
  /\ b[4] = "STOP"

\* pickle.load(f) on a complete blob
Loads(b) ==
  [alpha |-> b[2], coef |-> b[3]]

\* Mutant of PathExists: the existence check is lost, every call bootstraps.
PathExistsNever(f) ==
  FALSE

\* os.path.exists(path)
PathExists(f) ==
  f.exists

\* Mutant of WriteAt0: the bytes are appended to what the file holds.
WriteAppend(old, new) ==
  old \o new

\* a write of `new` through a descriptor opened with "wb", at its offset 0
WriteAt0(old, new) ==
  new \o SubSeq(old, Len(new) + 1, Len(old))

Ok(m) ==
  [ok |-> TRUE, model |-> m]

Raised ==
  [ok |-> FALSE, model |-> NoModel]

Release(c) ==
  IF useLock THEN 0 ELSE lock

\* a caller enters load_model (line 34), under the external mutex if one is used
LmCall(c) ==
  /\ lpc[c] = "idle"
  /\ Len(returned[c]) < MaxCalls
  /\ useLock => lock = 0
  /\ lock' = (IF useLock THEN c ELSE lock)
  /\ lpc' = [lpc EXCEPT ![c] = "check"]
  /\ UNCHANGED <<btVars, dsVars, prVars>>
  /\ UNCHANGED <<file, initFile, useLock, local, returned, trained, writes, rawReads>>

\* line 35, the file is there
LmExistsTrue(c) ==
  /\ lpc[c] = "check"
  /\ PathExists(file)
  /\ lpc' = [lpc EXCEPT ![c] = "read"]
  /\ UNCHANGED <<btVars, dsVars, prVars>>
  /\ UNCHANGED <<file, initFile, useLock, lock, local, returned, trained, writes, rawReads>>

\* line 35, the file is not there
LmExistsFalse(c) ==
  /\ lpc[c] = "check"
  /\ ~PathExists(file)
  /\ lpc' = [lpc EXCEPT ![c] = "train"]
  /\ UNCHANGED <<btVars, dsVars, prVars>>
  /\ UNCHANGED <<file, initFile, useLock, lock, local, returned, trained, writes, rawReads>>

\* lines 36-37: open for reading, deserialize, return
LmLoad(c) ==
  /\ lpc[c] = "read"
  /\ WellFormed(file.bytes)
  /\ returned' = [returned EXCEPT ![c] = Append(@, Ok(Loads(file.bytes)))]
  /\ lpc' = [lpc EXCEPT ![c] = "idle"]
  /\ lock' = Release(c)
  /\ UNCHANGED <<btVars, dsVars, prVars>>
  /\ UNCHANGED <<file, initFile, useLock, local, trained, writes, rawReads>>

\* lines 36-37: pickle.load raises on a file that is not a complete blob
LmLoadFail(c) ==
  /\ lpc[c] = "read"
  /\ ~WellFormed(file.bytes)
  /\ returned' = [returned EXCEPT ![c] = Append(@, Raised)]
  /\ rawReads' = rawReads + 1
  /\ lpc' = [lpc EXCEPT ![c] = "idle"]
  /\ lock' = Release(c)
  /\ UNCHANGED <<btVars, dsVars, prVars>>
  /\ UNCHANGED <<file, initFile, useLock, local, trained, writes>>

\* lines 39-47: sample the bootstrap set and fit
LmTrain(c) ==
  /\ lpc[c] = "train"
  /\ \E m \in Models :
       /\ local' = [local EXCEPT ![c] = m]
       /\ trained' = Append(trained, m)
  /\ lpc' = [lpc EXCEPT ![c] = "open_wb"]
  /\ UNCHANGED <<btVars, dsVars, prVars>>
  /\ UNCHANGED <<file, initFile, useLock, lock, returned, writes, rawReads>>

\* line 48: open(path, "wb") creates or truncates the file
LmOpenWrite(c) ==
  /\ lpc[c] = "open_wb"
  /\ file' = [exists |-> TRUE, bytes |-> <<>>]
  /\ lpc' = [lpc EXCEPT ![c] = "dump"]
  /\ UNCHANGED <<btVars, dsVars, prVars>>
  /\ UNCHANGED <<initFile, useLock, lock, local, returned, trained, writes, rawReads>>

\* line 49: pickle.dump and the close of the with block put the blob in the file
LmDump(c) ==
  /\ lpc[c] = "dump"
  /\ file' = [exists |-> TRUE, bytes |-> WriteAt0(file.bytes, Dumps(local[c]))]
  /\ writes' = Append(writes, local[c])
  /\ lpc' = [lpc EXCEPT ![c] = "ret"]
  /\ UNCHANGED <<btVars, dsVars, prVars>>
  /\ UNCHANGED <<initFile, useLock, lock, local, returned, trained, rawReads>>

\* line 50
LmReturn(c) ==
  /\ lpc[c] = "ret"
  /\ returned' = [returned EXCEPT ![c] = Append(@, Ok(local[c]))]
  /\ lpc' = [lpc EXCEPT ![c] = "idle"]
  /\ lock' = Release(c)
  /\ UNCHANGED <<btVars, dsVars, prVars>>
  /\ UNCHANGED <<file, initFile, useLock, local, trained, writes, rawReads>>

LmNext ==
  \E c \in Callers :
    \/ LmCall(c)
    \/ LmExistsTrue(c)
    \/ LmExistsFalse(c)
    \/ LmLoad(c)
    \/ LmLoadFail(c)
    \/ LmTrain(c)
    \/ LmOpenWrite(c)
    \/ LmDump(c)
    \/ LmReturn(c)

\* Before the first call the path holds nothing or a model persisted earlier.
InitLoad ==
  /\ file \in {NoFile} \cup {[exists |-> TRUE, bytes |-> Dumps(m)] : m \in Models}
  /\ initFile = file
  /\ useLock \in BOOLEAN
  /\ lock = 0
  /\ lpc = [c \in Callers |-> "idle"]
  /\ local = [c \in Callers |-> NoModel]
  /\ returned = [c \in Callers |-> <<>>]
  /\ trained = <<>> /\ writes = <<>> /\ rawReads = 0
  /\ nX = 0 /\ splits = 0 /\ bpc = "idle" /\ tscv = NoSplitter /\ folds = <<>>
  /\ model = Unfitted /\ preds = <<>> /\ rets = <<>> /\ btResult = NoResult
  /\ df = <<>> /\ dsX = <<>> /\ dsY = <<>> /\ dpc = "idle"
  /\ env = NoResult /\ ppc = "idle" /\ shap_ok = FALSE /\ shap_vals = EmptyDict
  /\ caught = "" /\ response = NoResult

SpecLoad ==
  InitLoad /\ [][LmNext]_vars

(***************************************************************************)
(* Claims about simple_backtest                                            *)
(***************************************************************************)
RECURSIVE SumTestSizes(_)
SumTestSizes(fs) ==
  IF fs = <<>> THEN 0 ELSE Len(fs[1].te) + SumTestSizes(Tail(fs))

Contiguous(te) ==
  \A i \in 1..(Len(te) - 1) : te[i + 1] = te[i] + 1

\* C1: the folds yielded are a chronological expanding-window partition: every
\* fold trains on exactly the rows strictly before its test block, every test
\* block is a non-empty contiguous range of rows, test blocks of different
\* folds are disjoint and strictly increasing, no row of a fold's test block
\* or later is in its training rows, and a call that returns metrics has run
\* exactly `splits` folds.
C1_ChronologicalFolds ==
  /\ \A k \in DOMAIN folds :
        LET tr == folds[k].tr
            te == folds[k].te
        IN  /\ Len(te) >= 1
            /\ Contiguous(te)
            /\ SeqToSet(te) \subseteq 0..(nX - 1)
            /\ SeqToSet(tr) = {p \in 0..(nX - 1) : p < te[1]}
            /\ Cardinality(SeqToSet(tr)) = Len(tr)
            /\ \A i \in DOMAIN tr : \A j \in DOMAIN te : tr[i] < te[j]
            /\ \A j \in 1..(k - 1) :
                  /\ folds[j].te[Len(folds[j].te)] < te[1]
                  /\ SeqToSet(folds[j].te) \cap SeqToSet(te) = {}
  /\ (bpc = "done" /\ nX >= splits + 1) => Len(folds) = splits

C1_Witness ==
  /\ bpc = "done"
  /\ nX = 29
  /\ splits = 5
  /\ Len(folds) = 5
  /\ folds[5].te = <<25, 26, 27, 28>>
  /\ Len(folds[1].tr) = 9

\* C2 (as claimed): the call ends with the error record, no model fitted,
\* exactly when len(X) < splits + 1; for every len(X) >= splits + 1 it ends
\* by returning a metrics record without an error field, after `splits` folds
\* that each have at least one training row and one test row.
C2_GuardSufficient ==
  bpc \in {"done", "raised"} =>
    IF nX < splits + 1
    THEN /\ btResult = ErrorRecord(nX)
         /\ model = Unfitted
    ELSE /\ bpc = "done"
         /\ "error" \notin DOMAIN btResult
         /\ "mse" \in DOMAIN btResult
         /\ Len(folds) = splits
         /\ \A k \in DOMAIN folds :
               Len(folds[k].tr) >= 1 /\ Len(folds[k].te) >= 1

\* What does hold of the guard: it is sufficient for every splits >= 2 (the
\* splitter's own feasibility checks never fire), and the error record is
\* returned exactly when len(X) < splits + 1.
GuardSufficientFromTwo ==
  /\ (bpc \in {"done", "raised"} /\ splits >= 2) => C2_GuardSufficient
  /\ (bpc = "loop") => ~SplitInfeasible(nX, tscv.n_splits)
  /\ (bpc = "done") => ("error" \in DOMAIN btResult <=> nX < splits + 1)
  /\ (bpc = "raised") => (splits <= 1 /\ nX >= splits + 1)

\* C3: a call that passes the guard returns samples equal to the number of
\* out-of-sample predictions, which is the sum of the fold test-block sizes,
\* splits * floor(len(X) / (splits + 1)); predictions and labels have that
\* length, entry i of both is about the same row, and rows are in increasing
\* time order.
C3_SamplesIsSumOfTestBlocks ==
  /\ Len(preds) = Len(rets)
  /\ \A i \in DOMAIN preds : preds[i].row = rets[i].row
  /\ \A i \in DOMAIN rets : \A j \in DOMAIN rets :
        i < j => rets[i].row < rets[j].row
  /\ Len(preds) = SumTestSizes(folds)
  /\ (bpc = "done" /\ nX >= splits + 1) =>
        /\ btResult.samples = Len(preds)
        /\ btResult.samples = SumTestSizes(folds)
        /\ btResult.samples = splits * (nX \div (splits + 1))

C3_Witness ==
  /\ bpc = "done"
  /\ nX = 29
  /\ splits = 5
  /\ btResult.samples = 20
  /\ Len(preds) = 20

\* C9: every prediction of a fold's test block comes from a fit on that
\* fold's training rows only, and after each fit the estimator's state is
\* that of the current fold alone.
C9_FoldFitIndependent ==
  /\ \A i \in DOMAIN preds : \A k \in DOMAIN folds :
        preds[i].row \in SeqToSet(folds[k].te) => preds[i].fit = folds[k].tr
  /\ \A i \in DOMAIN preds : \E k \in DOMAIN folds :
        preds[i].row \in SeqToSet(folds[k].te)
  /\ model.fitted => (folds # <<>> /\ model.rows = folds[Len(folds)].tr)

C9_Witness ==
  /\ bpc = "done"
  /\ Len(folds) >= 3
  /\ preds[Len(preds)].fit = folds[Len(folds)].tr
  /\ preds[1].fit = folds[1].tr
  /\ folds[1].tr # folds[Len(folds)].tr
(***************************************************************************)
(* Claims about build_dataset                                              *)
(***************************************************************************)
\* C4: for every frame with strictly increasing timestamps and n rows,
\* build_dataset returns X and y on the same index, of length max(n-1, 0):
\* exactly the last timestamp is dropped, the label at each kept timestamp is
\* ret1 at the next timestamp (computed here from the closes: close'/close - 1,
\* 0.0 where that is 0/0, inf where a positive close follows a zero close),
\* and a frame of at most one row gives empty X and y.
C4_AlignedNextReturn ==
  dpc = "done" =>
    LET n == Len(df) IN
    /\ Len(dsX) = (IF n >= 1 THEN n - 1 ELSE 0)
    /\ Len(dsY) = Len(dsX)
    /\ \A i \in DOMAIN dsY :
         /\ dsY[i].t = df[i].t
         /\ dsX[i].t = df[i].t
         /\ dsY[i].v # <<0, 0>>
         /\ LET c == df[i].close
                d == df[i + 1].close
            IN  IF c = 0
                THEN dsY[i].v = (IF d = 0 THEN <<0, 1>> ELSE <<1, 0>>)
                ELSE /\ dsY[i].v[2] > 0
                     /\ dsY[i].v[1] * c = (d - c) * dsY[i].v[2]
         /\ (i >= 2 /\ df[i - 1].close > 0) =>
               dsX[i].ret1[1] * df[i - 1].close
                 = (df[i].close - df[i - 1].close) * dsX[i].ret1[2]
    /\ n <= 1 => (dsX = <<>> /\ dsY = <<>>)

C4_Witness ==
  /\ dpc = "done"
  /\ Len(df) = 4
  /\ Len(dsX) = 3
  /\ Len(dsY) = 3
  /\ df[2].close = 0
  /\ df[3].close = 0
  /\ dsY[1].v = <<-1, 1>>
  /\ dsY[2].v = <<0, 1>>
  /\ dsY[3].v = <<1, 0>>
  /\ df[4].t = 4

C4_WitnessEmpty ==
  dpc = "done" /\ Len(df) = 1 /\ dsX = <<>> /\ dsY = <<>>
(***************************************************************************)
(* Claims about predict's attribution chain                                *)
(***************************************************************************)
Attempted ==
  env.enable /\ ~env.empty

IsErrorEntry(fi) ==
  /\ DOMAIN fi = {"error"}
  /\ fi["error"] # ""

IsImportances(fi) ==
  /\ DOMAIN fi = SeqToSet(Cols)
  /\ \A c \in DOMAIN fi : fi[c] \in Nat

\* C5 (as claimed): when attribution is attempted, the strategies are tried in
\* priority order and the first that succeeds wins: SHAP; else the absolute
\* coefficients if exposed and computable; else the absolute importances if
\* exposed and computable (also after a coefficient computation that raised);
\* the failure outcome only when every strategy is unavailable or raised.
C5_FirstSuccessWins ==
  (ppc = "done" /\ Attempted) =>
    LET fi == response.feature_importance
        ok == response.shap_ok
    IN  IF ~env.shapRaises
        THEN ok /\ fi = Zip(Cols, AbsVec(env.sv))
        ELSE IF env.hasCoef /\ ~env.coefRaises
        THEN ok /\ fi = Zip(Cols, AbsVec(env.coef))
        ELSE IF env.hasFI /\ ~env.fiRaises
        THEN ok /\ fi = Zip(Cols, AbsVec(env.fi))
        ELSE ~ok /\ IsErrorEntry(fi)

\* What the code does: the importances are consulted only for a model that
\* exposes no coefficients; a coefficient computation that raises ends in the
\* failure outcome.  One outcome per call, never a merge.
AttributionChainAsCoded ==
  (ppc = "done" /\ Attempted) =>
    LET fi == response.feature_importance
        ok == response.shap_ok
    IN  IF ~env.shapRaises
        THEN ok /\ fi = Zip(Cols, AbsVec(env.sv))
        ELSE IF env.hasCoef
        THEN IF env.coefRaises
             THEN ~ok /\ IsErrorEntry(fi)
             ELSE ok /\ fi = Zip(Cols, AbsVec(env.coef))
        ELSE IF env.hasFI /\ ~env.fiRaises
        THEN ok /\ fi = Zip(Cols, AbsVec(env.fi))
        ELSE ~ok /\ IsErrorEntry(fi)

\* C6 (as claimed): for every returned response, whatever ENABLE_SHAP is,
\* shap_ok is false iff feature_importance is a single error entry with a
\* non-empty diagnostic, and true iff it maps the feature names to numbers
\* without an error key.
C6_Original ==
  ppc = "done" =>
    LET fi == response.feature_importance
        ok == response.shap_ok
    IN  /\ ~ok <=> IsErrorEntry(fi)
        /\ ok <=> IsImportances(fi)

\* C6 (amended): the two equivalences hold for every call that attempts
\* attribution (ENABLE_SHAP is "true") or finds no data; a call with data and
\* ENABLE_SHAP off returns shap_ok false with an empty feature_importance.
\* The diagnostic of "SHAP failed, the model exposes neither accessor" differs
\* from every diagnostic of "SHAP failed and the fallback computation raised".
C6_AttributionShape ==
  ppc = "done" =>
    LET fi == response.feature_importance
        ok == response.shap_ok
    IN  /\ (env.enable \/ env.empty) =>
              /\ ~ok <=> IsErrorEntry(fi)
              /\ ok <=> IsImportances(fi)
        /\ (~env.enable /\ ~env.empty) => (~ok /\ DOMAIN fi = {})
        /\ (Attempted /\ env.shapRaises /\ ~env.hasCoef /\ ~env.hasFI) =>
              /\ fi["error"] = NoFallbackDiag(env.shapMsg)
              /\ \A m \in Msgs : fi["error"] # FailedDiag(m)
        /\ (Attempted /\ env.shapRaises
              /\ (env.coefRaises \/ (~env.hasCoef /\ env.fiRaises))) =>
              /\ fi["error"] = FailedDiag(env.fbMsg)
              /\ \A m \in Msgs : fi["error"] # NoFallbackDiag(m)

C6_Witness ==
  /\ ppc = "done"
  /\ Attempted
  /\ env.shapRaises
  /\ ~env.hasCoef
  /\ ~env.hasFI
  /\ env.shapMsg = ""
  /\ ~response.shap_ok
  /\ response.feature_importance["error"] = "SHAP failed and no fallback importances: "

C6_WitnessFallbackRaised ==
  /\ ppc = "done"
  /\ Attempted
  /\ env.hasCoef /\ env.coefRaises /\ env.hasFI /\ ~env.fiRaises
  /\ ~response.shap_ok
  /\ response.feature_importance["error"]
       = "Importance computation failed: No module named 'shap'"
(***************************************************************************)
(* Claims about load_model                                                 *)
(***************************************************************************)
AllReturned ==
  UNION {SeqToSet(returned[c]) : c \in Callers}

\* C7: in a sequence of non-overlapping calls (the callers serialize them):
\* when a persisted model is at the path, every call returns that model and
\* nothing is trained or written (the blob stays as it was); when none is,
\* the first call trains, persists and returns a bootstrap model, no later
\* call trains or writes, and every call returns the model the first call
\* persisted, read back from the blob.
C7_LoadOrBootstrap ==
  useLock =>
    /\ initFile.exists =>
         /\ trained = <<>>
         /\ writes = <<>>
         /\ file = initFile
         /\ \A r \in AllReturned :
              r.ok /\ Dumps(r.model) = initFile.bytes /\ r.model \in Models
    /\ ~initFile.exists =>
         /\ Len(trained) <= 1
         /\ Len(writes) <= 1
         /\ writes # <<>> =>
              /\ writes = trained
              /\ file.exists
              /\ file.bytes = <<"PROTO", trained[1].alpha, trained[1].coef, "STOP">>
         /\ AllReturned # {} => Len(writes) = 1
         /\ \A r \in AllReturned : r.ok /\ r.model = trained[1]

C7_Witness ==
  /\ useLock
  /\ ~initFile.exists
  /\ Len(returned[1]) = 2
  /\ Len(returned[2]) = 2
  /\ Len(trained) = 1
  /\ Len(writes) = 1
  /\ returned[2][2] = Ok(trained[1])

\* C8: load_model has no mutual exclusion of its own.  Serialized by an
\* external mutex, at most one call trains and writes; in every interleaving
\* a call trains only after it saw the path empty, and once no caller is
\* between open-for-write and dump the blob at the path is the last writer's.
\* (That two unserialized first calls can both train and write, and return
\* different models, is the reachable state C8_Witness.)
C8_RaceOnlyWithoutLock ==
  /\ useLock => (Len(trained) <= 1 /\ Len(writes) <= 1)
  /\ (useLock /\ ~initFile.exists /\ AllReturned # {}) =>
        (Len(trained) = 1 /\ Len(writes) = 1)
  /\ trained # <<>> => ~initFile.exists
  /\ Len(writes) <= Len(trained)
  /\ (writes # <<>> /\ \A c \in Callers : lpc[c] # "dump") =>
        /\ file.exists
        /\ file.bytes = Dumps(writes[Len(writes)])

C8_Witness ==
  /\ ~useLock
  /\ ~initFile.exists
  /\ Len(trained) = 2
  /\ Len(writes) = 2
  /\ returned[1] = <<Ok(trained[1])>>
  /\ returned[2] = <<Ok(trained[2])>>
  /\ trained[1] # trained[2]
  /\ file.bytes = Dumps(writes[2])
  /\ writes[2] = trained[1]
  /\ \A c \in Callers : lpc[c] = "idle"

\* C10 (as claimed): no call that found the file present ever reads a blob
\* that is not completely written.
C10_NeverPartialRead ==
  /\ rawReads = 0
  /\ \A r \in AllReturned : r.ok

\* C10 (amended): calls serialized by an external mutex never read an
\* incomplete blob; in every interleaving the file at the path is incomplete
\* only while some call is between its open-for-write and its dump, and a
\* load fails only in runs without the mutex.
C10_PartialReadOnlyWithoutLock ==
  /\ useLock =>
        /\ rawReads = 0
        /\ \A r \in AllReturned : r.ok
        /\ \A c \in Callers : lpc[c] = "read" => WellFormed(file.bytes)
  /\ (file.exists /\ ~WellFormed(file.bytes)) =>
        /\ file.bytes = <<>>
        /\ \E c \in Callers : lpc[c] = "dump"
  /\ rawReads > 0 => (~useLock /\ Len(trained) >= 1)

C10_Witness ==
  /\ useLock
  /\ ~initFile.exists
  /\ lpc[2] = "read"
  /\ returned[1] = <<Ok(trained[1])>>
  /\ returned[2] = <<>>
  /\ WellFormed(file.bytes)
  /\ rawReads = 0
\* The frames the model starts from are PriceSeries: timestamps strictly
\* increasing, hence no duplicates.
StrictlyIncreasing(d) ==
  \A i \in 1..(Len(d) - 1) : d[i].t < d[i + 1].t

FramesAreSeries ==
  StrictlyIncreasing(df)
====
